---- MODULE Spec2Model ----
(***************************************************************************)
(* Model of the header field upsert engine of the Obsidian Auto Timestamps *)
(* plugin (src/src/main.ts): hasTimeProperty and insertFrontMatter, with   *)
(* the JavaScript regular-expression and String.prototype.replace/trim     *)
(* semantics they rely on.  Document text is a TLA+ string (a sequence of  *)
(* characters); Len, SubSeq and \o are the string operations.              *)
(***************************************************************************)
EXTENDS Integers, Sequences, FiniteSets, TLC

VARIABLES doc, prev, data, ext, calls, res,
          clock, isInitializing, processingFile, activeFile, lastModifiedTime,
          settings, vault, openFile, handlers, events, last, hist

\* the variables of the frontmatter functions' specifications
engineVars == <<doc, prev, data, ext, calls, res>>

\* the plugin object's fields (isInitializing, processingFile, activeFile,
\* lastModifiedTime, settings), the host around it (clock, vault, openFile,
\* the suspended handler calls) and the history of the run (events, last, hist)
pluginVars == <<clock, isInitializing, processingFile, activeFile,
                lastModifiedTime, settings, vault, openFile, handlers,
                events, last, hist>>

vars == <<engineVars, pluginVars>>

(***************************************************************************)
(* Bounds of the model.                                                    *)
(***************************************************************************)
MaxLines == 4
MaxCalls == 1
MaxEngineCalls == 2
MaxTime == 1
MaxClock == 3
MaxEvents == 3
MaxShortEvents == 2
MaxSeqEvents == 5
MaxHandlers == 2

(***************************************************************************)
(* String helpers.                                                         *)
(***************************************************************************)
Ch(s, i) == SubSeq(s, i, i)

StartsWithAt(s, p, i) ==
    /\ i >= 1
    /\ i + Len(p) - 1 <= Len(s)
    /\ SubSeq(s, i, i + Len(p) - 1) = p

Min(S) == CHOOSE x \in S : \A y \in S : x <= y

Max(S) == CHOOSE x \in S : \A y \in S : x >= y

\* ECMAScript LineTerminator code points (those a TLA+ string can hold):
\* what the dot refuses and what ^ and $ anchor on under the m flag.
LineTerminator == {"\n", "\r"}

\* ECMAScript WhiteSpace and LineTerminator code points stripped by trim():
\* space, tab, line feed, carriage return, form feed and vertical tab
\* (U+000B, written as the character itself).  The code points beyond
\* ASCII (U+00A0, U+FEFF, ...) are outside the model's strings.
WhiteSpace == {" ", "\t", "\n", "\r", "\f", ""}

Digits == <<"0", "1", "2", "3", "4", "5", "6", "7", "8", "9">>

IsDigit(c) == \E k \in 1..10 : Digits[k] = c

DigitVal(c) == (CHOOSE k \in 1..10 : Digits[k] = c) - 1

(***************************************************************************)
(* String.prototype.trim                                                   *)
(***************************************************************************)
trim(s) ==
    LET keep == {i \in 1..Len(s) : Ch(s, i) \notin WhiteSpace}
    IN  IF keep = {} THEN "" ELSE SubSeq(s, Min(keep), Max(keep))

(***************************************************************************)
(* GetSubstitution of ECMAScript: expansion of the $ patterns of a         *)
(* replacement string.  matched is the matched text, position the 1-based  *)
(* index of its first character in str, captures the capture groups.       *)
(* The pattern made of $ and a grave accent (the text before the match) is *)
(* left out: a TLA+ string literal cannot hold a grave accent, so no       *)
(* document, name or value of the model contains one.                      *)
(***************************************************************************)
RECURSIVE GetSubstitution(_, _, _, _, _)
GetSubstitution(matched, str, position, captures, template) ==
    LET n       == Len(template)
        dollars == {i \in 1..n : Ch(template, i) = "$"}
    IN
    IF dollars = {} THEN template
    ELSE
      LET d     == Min(dollars)
          c2    == IF d + 1 <= n THEN Ch(template, d + 1) ELSE ""
          c3    == IF d + 2 <= n THEN Ch(template, d + 2) ELSE ""
          m     == Len(captures)
          \* the text before the first $ is copied as it is
          lit   == SubSeq(template, 1, d - 1)
          \* the expansion of the rest, after the k characters of a pattern
          rest(k) == GetSubstitution(matched, str, position, captures,
                                     SubSeq(template, d + k, n))
      IN
      IF c2 = "$" THEN lit \o "$" \o rest(2)
      ELSE IF c2 = "&" THEN lit \o matched \o rest(2)
      ELSE IF c2 = "'"
        THEN lit \o SubSeq(str, position + Len(matched), Len(str)) \o rest(2)
      ELSE IF c2 # "" /\ IsDigit(c2)
        THEN LET two  == c3 # "" /\ IsDigit(c3)
                 idx2 == IF two THEN 10 * DigitVal(c2) + DigitVal(c3) ELSE 0
                 dc   == IF two /\ idx2 <= m THEN 2 ELSE 1
                 idx  == IF dc = 2 THEN idx2 ELSE DigitVal(c2)
             IN  IF 1 <= idx /\ idx <= m
                   THEN lit \o captures[idx] \o rest(dc + 1)
                   ELSE lit \o SubSeq(template, d, d + dc) \o rest(dc + 1)
      ELSE lit \o "$" \o rest(1)

(***************************************************************************)
(* frontMatterRegex = /^---\n([\s\S]*?)\n---/ : anchored at offset 0, the  *)
(* lazy group ends at the nearest later "\n---".  j is the index of the    *)
(* "\n" that begins the closing "\n---".                                   *)
(***************************************************************************)
frontMatterClose(content) ==
    {j \in 5..Len(content) : StartsWithAt(content, "\n---", j)}

frontMatterMatch(content) ==
    IF StartsWithAt(content, "---\n", 1) /\ frontMatterClose(content) # {}
      THEN LET j == Min(frontMatterClose(content))
           IN  [found |-> TRUE, last |-> j + 3,
                group |-> SubSeq(content, 5, j - 1)]
      ELSE [found |-> FALSE, last |-> 0, group |-> ""]

\* content.match(frontMatterRegex)?.[1] || ''
frontMatterOf(content) ==
    IF frontMatterMatch(content).found
      THEN frontMatterMatch(content).group
      ELSE ""

(***************************************************************************)
(* new RegExp("^" + key + ":.*$", "m") for a key made of word characters: *)
(* the start indexes of its matches, and the end index of the match at i.  *)
(***************************************************************************)
propertyMatches(s, key) ==
    {i \in 1..Len(s) :
        /\ (i = 1 \/ Ch(s, i - 1) \in LineTerminator)
        /\ StartsWithAt(s, key \o ":", i)}

propertyMatchEnd(s, i) ==
    Min({e \in (i - 1)..Len(s) :
            e = Len(s) \/ Ch(s, e + 1) \in LineTerminator})

\* propertyRegex.test(frontMatter)
propertyTest(s, key) == propertyMatches(s, key) # {}

\* s.replace(regex, template) for the (non-global) property regex
propertyReplace(s, key, template) ==
    IF propertyMatches(s, key) = {} THEN s
    ELSE LET i == Min(propertyMatches(s, key))
             e == propertyMatchEnd(s, i)
         IN  SubSeq(s, 1, i - 1)
             \o GetSubstitution(SubSeq(s, i, e), s, i, <<>>, template)
             \o SubSeq(s, e + 1, Len(s))

(***************************************************************************)
(* hasTimeProperty(content, property)                                      *)
(***************************************************************************)
hasTimeProperty(content, property) ==
    propertyTest(frontMatterOf(content), property)

(***************************************************************************)
(* insertFrontMatter(content, data).  data is the Record<string,string> as *)
(* the sequence of its entries in for-in order (distinct keys).            *)
(***************************************************************************)
RECURSIVE upsertEntries(_, _, _)
upsertEntries(frontMatter, newFrontMatter, entries) ==
    IF entries = <<>> THEN newFrontMatter
    ELSE LET key   == Head(entries).key
             value == Head(entries).value
             nf    == IF propertyTest(frontMatter, key)
                        THEN propertyReplace(newFrontMatter, key,
                                             key \o ": " \o value)
                        ELSE newFrontMatter \o "\n" \o key \o ": " \o value
         IN  upsertEntries(frontMatter, nf, Tail(entries))

insertFrontMatter(content, entries) ==
    LET mt             == frontMatterMatch(content)
        frontMatter    == frontMatterOf(content)
        newFrontMatter == upsertEntries(frontMatter, frontMatter, entries)
    IN  IF frontMatter # ""
          THEN GetSubstitution(SubSeq(content, 1, mt.last), content, 1,
                               <<mt.group>>,
                               "---\n" \o trim(newFrontMatter) \o "\n---")
               \o SubSeq(content, mt.last + 1, Len(content))
          ELSE "---\n" \o trim(newFrontMatter) \o "\n---\n\n" \o content

(***************************************************************************)
(* moment(t).format("YYYY-MM-DD HH:mm:ss") for the instants t seconds      *)
(* after 2024-01-01 00:00:00 local time, t < 60.                           *)
(***************************************************************************)
format(t) ==
    "2024-01-01 00:00:" \o Digits[(t \div 10) + 1] \o Digits[(t % 10) + 1]

(***************************************************************************)
(* Inputs: documents of at most MaxLines lines, mappings over the field    *)
(* names the plugin writes.                                                *)
(***************************************************************************)
Lines == {"---", "----", "", "created: 1", "modified: 2 ", "x: $1", "y: $'$$"}

RECURSIVE DocsOfLines(_)
DocsOfLines(n) ==
    IF n = 0 THEN {""}
    ELSE IF n = 1 THEN Lines
    ELSE {d \o "\n" \o l : d \in DocsOfLines(n - 1), l \in Lines}

Docs == UNION {DocsOfLines(n) : n \in 0..MaxLines}

Keys == {"created", "modified"}

Values == {format(0), "", "$&"}

Entry(k, v) == [key |-> k, value |-> v]

MappingsOver(V) ==
    {<<>>}
    \cup {<<Entry(k, v)>> : k \in Keys, v \in V}
    \cup {<<Entry(k1, v1), Entry(k2, v2)>> :
            <<k1, k2>> \in {p \in Keys \X Keys : p[1] # p[2]},
            <<v1, v2>> \in V \X V}

Mappings == MappingsOver(Values)

(***************************************************************************)
(* The state machine: a document, and calls of the engine on it.  prev and *)
(* data are the arguments of the last call, doc its result, ext what the   *)
(* call's extraction step found in prev.                                   *)
(***************************************************************************)
NoExt == [found |-> FALSE, inner |-> ""]

\* res: how the last call of hasTimeProperty / insertFrontMatter under
\* SpecCalls ended (returned or threw) and what hasTimeProperty returned
NoRes == [fn |-> "none", name |-> "", outcome |-> "none", value |-> FALSE]

(***************************************************************************)
(* The plugin object as constructed, before onload: the field initialisers *)
(* of the class and DEFAULT_SETTINGS.  The specifications of the           *)
(* frontmatter functions keep the plugin in this state.                    *)
(***************************************************************************)
NoFile == ""

\* the settings field before loadSettings has assigned it
undefined == "undefined"

DEFAULT_SETTINGS ==
    [enableCreatedTime |-> TRUE, enableModifiedTime |-> TRUE,
     modifyInterval |-> 10]

Idle ==
    [kind |-> "idle", file |-> NoFile, pc |-> "idle", origin |-> "none",
     currentTime |-> 0, interval |-> 0, stamp |-> "",
     content |-> "", newContent |-> ""]

\* last: what the last step was.  op: the step; kind, file, origin: the
\* handler call or event it belongs to; accepted: the event passed the
\* handler's guard and the handler went on to its read; quiet: no handler
\* call was suspended when the event arrived; qualifies, firstEdit: the
\* event is one the timestamp rules promise an update for; before, after:
\* the text read and the text written by a write; at, prevAt, interval,
\* reset: the Date.now of this and of the previous write by
\* handleFileModify, the interval (ms) this one was tested against, and
\* whether handleFileCreate reset lastModifiedTime in between.
NoStep ==
    [op |-> "none", kind |-> "none", file |-> NoFile, origin |-> "none",
     accepted |-> FALSE, quiet |-> FALSE, qualifies |-> FALSE,
     firstEdit |-> FALSE, before |-> "", after |-> "",
     at |-> -1, prevAt |-> -1, interval |-> 0, reset |-> FALSE]

NoHist ==
    [prevModifyWrite |-> -1, resetSince |-> FALSE,
     created |-> {}, opened |-> {}, edited |-> {}]

PluginConstructed ==
    /\ clock = 0
    /\ isInitializing = TRUE
    /\ processingFile = FALSE
    /\ activeFile = NoFile
    /\ lastModifiedTime = 0
    /\ settings = undefined
    /\ vault = <<>>
    /\ openFile = NoFile
    /\ handlers = [i \in 1..MaxHandlers |-> Idle]
    /\ events = 0
    /\ last = NoStep
    /\ hist = NoHist

Init ==
    /\ doc \in Docs
    /\ prev = doc
    /\ data = <<>>
    /\ ext = NoExt
    /\ calls = 0
    /\ res = NoRes
    /\ PluginConstructed

Upsert(m, bound) ==
    /\ calls < bound
    /\ doc' = insertFrontMatter(doc, m)
    /\ prev' = doc
    /\ data' = m
    /\ ext' = [found |-> frontMatterMatch(doc).found,
               inner |-> frontMatterOf(doc)]
    /\ calls' = calls + 1
    /\ UNCHANGED <<res, pluginVars>>

Next == \E m \in Mappings : Upsert(m, MaxCalls)

Spec == Init /\ [][Next]_vars

(***************************************************************************)
(* The notions the specification is written in: marker lines, the header   *)
(* block they delimit, its lines and the body after it.                    *)
(***************************************************************************)
IsSuffix(t, s) ==
    /\ Len(t) <= Len(s)
    /\ SubSeq(s, Len(s) - Len(t) + 1, Len(s)) = t

RECURSIVE SplitLines(_)
SplitLines(s) ==
    LET nl == {i \in 1..Len(s) : Ch(s, i) = "\n"}
    IN  IF nl = {} THEN <<s>>
        ELSE <<SubSeq(s, 1, Min(nl) - 1)>>
             \o SplitLines(SubSeq(s, Min(nl) + 1, Len(s)))

RECURSIVE JoinLines(_)
JoinLines(ls) ==
    IF ls = <<>> THEN ""
    ELSE IF Len(ls) = 1 THEN ls[1]
    ELSE ls[1] \o "\n" \o JoinLines(Tail(ls))

\* the line that starts at index i of d is exactly the marker "---"
MarkerLineAt(d, i) ==
    /\ i = 1 \/ Ch(d, i - 1) = "\n"
    /\ StartsWithAt(d, "---", i)
    /\ i + 3 > Len(d) \/ Ch(d, i + 3) = "\n"

MarkerLines(d) == {i \in 5..Len(d) : MarkerLineAt(d, i)}

HasBlock(d) == MarkerLineAt(d, 1) /\ MarkerLines(d) # {}

BlockClose(d) == Min(MarkerLines(d))

\* the lines strictly between the opening and the nearest closing marker
BlockLines(d) ==
    IF ~HasBlock(d) \/ BlockClose(d) = 5 THEN <<>>
    ELSE SplitLines(SubSeq(d, 5, BlockClose(d) - 2))

BlockInner(d) == JoinLines(BlockLines(d))

\* the text after the closing marker line; the whole text without a block
BlockBody(d) ==
    IF HasBlock(d) THEN SubSeq(d, BlockClose(d) + 3, Len(d)) ELSE d

\* a line "<name>:<rest>" whose name is a bare token
Colons(l) == {k \in 1..Len(l) : Ch(l, k) = ":"}

IsFieldLine(l) ==
    /\ Colons(l) # {}
    /\ Min(Colons(l)) > 1
    /\ \A k \in 1..(Min(Colons(l)) - 1) : Ch(l, k) \notin WhiteSpace

FieldName(l) == SubSeq(l, 1, Min(Colons(l)) - 1)

Range(f) == {f[i] : i \in DOMAIN f}

KeysOf(m) == {m[i].key : i \in DOMAIN m}

Called == calls >= 1

(***************************************************************************)
(* Claims.                                                                 *)
(***************************************************************************)

\* C1: upsert is idempotent: calling it again with the same mapping on its
\* own result returns that result unchanged, for every document and every
\* mapping (the empty one included).
C1_Idempotent ==
    Called => insertFrontMatter(doc, data) = doc

\* C2: every field line of the header of d whose name is not a key of m is
\* a line of the header of upsert(d, m), unchanged.
C2_OtherFieldsUnchanged ==
    (Called /\ HasBlock(prev)) =>
        \A l \in Range(BlockLines(prev)) :
            (IsFieldLine(l) /\ FieldName(l) \notin KeysOf(data)) =>
                HasBlock(doc) /\ l \in Range(BlockLines(doc))

\* C3: the text of d after its header block (all of d when d has no header
\* block) is the tail of upsert(d, m), byte for byte.
C3_BodyIsTail ==
    Called => IsSuffix(BlockBody(prev), doc)

\* C4: with the empty mapping an existing header block keeps its contents,
\* and a document without a header block is returned as it is.
C4_EmptyMapping ==
    (Called /\ data = <<>>) =>
        IF HasBlock(prev)
          THEN HasBlock(doc) /\ BlockInner(doc) = BlockInner(prev)
          ELSE doc = prev

\* C5: a document that begins with a header block, whatever its contents,
\* is rewritten in place: the result is the marker line, the trimmed
\* accumulated contents, the closing marker and the text after the block.
C5_InPlace ==
    (Called /\ HasBlock(prev)) =>
        doc = "---\n"
              \o trim(upsertEntries(BlockInner(prev), BlockInner(prev), data))
              \o "\n---" \o BlockBody(prev)

\* C6: a document without a header block and a non-empty mapping of
\* single-line values give the marker line, one line "name: value" per entry
\* in iteration order, the closing marker, a blank line and the document.
SingleLine(v) == \A i \in 1..Len(v) : Ch(v, i) \notin LineTerminator

EntryLines(m) == [i \in DOMAIN m |-> m[i].key \o ": " \o m[i].value]

C6_InsertWhenAbsent ==
    (/\ Called
     /\ ~HasBlock(prev)
     /\ data # <<>>
     /\ \A i \in DOMAIN data : SingleLine(data[i].value)) =>
        doc = "---\n" \o JoinLines(EntryLines(data)) \o "\n---\n\n" \o prev

\* C7: inside an existing header each name of m that has a field line gets
\* its first such line replaced in place by "name: value" (positions and
\* number of lines unchanged) and each other name is appended after the
\* existing lines, in iteration order.
RECURSIVE UpsertLines(_, _)
UpsertLines(ls, entries) ==
    IF entries = <<>> THEN ls
    ELSE LET e    == Head(entries)
             line == e.key \o ": " \o e.value
             hits == {i \in DOMAIN ls : StartsWithAt(ls[i], e.key \o ":", 1)}
         IN  UpsertLines(IF hits # {} THEN [ls EXCEPT ![Min(hits)] = line]
                                      ELSE Append(ls, line),
                         Tail(entries))

C7_PerEntryUpsert ==
    (Called /\ HasBlock(prev)) =>
        /\ HasBlock(doc)
        /\ BlockLines(doc) = UpsertLines(BlockLines(prev), data)

\* C9: processing the entries of m in the other iteration order gives the
\* same set of header lines.
Reverse(m) == [i \in DOMAIN m |-> m[Len(m) + 1 - i]]

C9_OrderIndependent ==
    (Called /\ Len(data) = 2) =>
        Range(BlockLines(doc))
            = Range(BlockLines(insertFrontMatter(prev, Reverse(data))))

\* C10: the extraction step detects a header block iff the first line is
\* exactly the marker and some later line is exactly the marker (a line that
\* only begins with the marker closes nothing); the inner contents are the
\* text between them, and the empty string when nothing is detected.
C10_MarkerLineDetection ==
    Called =>
        /\ ext.found <=> HasBlock(prev)
        /\ ext.inner = BlockInner(prev)

\* C11: when the document starts with a marker line and has several later
\* marker lines, extraction ends the block at the nearest one: the inner
\* contents are the text strictly between the opening marker and that line,
\* and upsert rewrites that region only (what follows it stays the tail).
C11_NearestMarker ==
    (Called /\ HasBlock(prev) /\ Cardinality(MarkerLines(prev)) >= 2) =>
        /\ ext.found
        /\ ext.inner = BlockInner(prev)
        /\ IsSuffix(BlockBody(prev), doc)

(***************************************************************************)
(* The engine's own writes: documents whose header names are unique, and   *)
(* calls with the mappings the plugin builds (created / modified set to a  *)
(* formatted instant).                                                     *)
(***************************************************************************)
FieldLinesOf(ls) == {i \in DOMAIN ls : IsFieldLine(ls[i])}

UniqueNames(ls) ==
    \A i, j \in FieldLinesOf(ls) :
        FieldName(ls[i]) = FieldName(ls[j]) => i = j

UniqueHeader(d) ==
    /\ UniqueNames(BlockLines(d))
    /\ UniqueNames(SplitLines(frontMatterOf(d)))

EngineLines == {"---", "", "created: 1", "modified: 2 ", "x: $1"}

RECURSIVE EngineDocsOfLines(_)
EngineDocsOfLines(n) ==
    IF n = 0 THEN {""}
    ELSE IF n = 1 THEN EngineLines
    ELSE {d \o "\n" \o l : d \in EngineDocsOfLines(n - 1), l \in EngineLines}

EngineDocs ==
    {d \in UNION {EngineDocsOfLines(n) : n \in 0..MaxLines} : UniqueHeader(d)}

TimeValues == {format(t) : t \in 0..MaxTime}

\* the handlers call the engine with a non-empty mapping only
TimeMappings == MappingsOver(TimeValues) \ {<<>>}

InitEngine ==
    /\ doc \in EngineDocs
    /\ prev = doc
    /\ data = <<>>
    /\ ext = NoExt
    /\ calls = 0
    /\ res = NoRes
    /\ PluginConstructed

NextEngine == \E m \in TimeMappings : Upsert(m, MaxEngineCalls)

SpecEngine == InitEngine /\ [][NextEngine]_vars

\* C8: from a document whose header has at most one field line per name,
\* any sequence of upserts over created / modified leaves at most one
\* created line and at most one modified line in the header.
CountLines(ls, name) ==
    Cardinality({i \in DOMAIN ls : StartsWithAt(ls[i], name \o ":", 1)})

C8_NoDuplicates ==
    \A name \in Keys :
        /\ CountLines(BlockLines(doc), name) <= 1
        /\ CountLines(SplitLines(frontMatterOf(doc)), name) <= 1

(***************************************************************************)
(* Calls of the two functions with arbitrary names.  The name is pasted    *)
(* into the source of a regular expression (new RegExp("^" + name +        *)
(* ":.*$", "m")), whose construction throws a SyntaxError when the pattern *)
(* is not well formed.  For names made of word characters and parentheses: *)
(* the pattern is ill formed iff the parentheses are unbalanced.  (A name  *)
(* with balanced parentheses is a group and is not in the sets below.)     *)
(***************************************************************************)
RECURSIVE parenDepth(_, _, _)
parenDepth(key, i, depth) ==
    IF i > Len(key) THEN depth
    ELSE IF Ch(key, i) = "(" THEN parenDepth(key, i + 1, depth + 1)
    ELSE IF Ch(key, i) = ")"
      THEN IF depth = 0 THEN -1 ELSE parenDepth(key, i + 1, depth - 1)
    ELSE parenDepth(key, i + 1, depth)

regExpSyntaxError(key) == parenDepth(key, 1, 0) # 0

PresenceLines ==
    {"---", "----", "created: 1", "createdAt: x", "Created: 1", "x created: 1"}

RECURSIVE PresenceDocsOfLines(_)
PresenceDocsOfLines(n) ==
    IF n = 0 THEN {""}
    ELSE IF n = 1 THEN PresenceLines
    ELSE {d \o "\n" \o l : d \in PresenceDocsOfLines(n - 1),
                           l \in PresenceLines}

PresenceDocs == UNION {PresenceDocsOfLines(n) : n \in 0..MaxLines}

OpaqueNames == {"created", "modified", "a(", "a)"}

OpaqueMappings == {<<Entry(k, format(0))>> : k \in OpaqueNames}

InitCalls ==
    /\ doc \in PresenceDocs
    /\ prev = doc
    /\ data = <<>>
    /\ ext = NoExt
    /\ calls = 0
    /\ res = NoRes
    /\ PluginConstructed

\* hasTimeProperty(doc, name)
CallHasTimeProperty(name) ==
    /\ calls < MaxCalls
    /\ calls' = calls + 1
    /\ res' = IF regExpSyntaxError(name)
                THEN [fn |-> "hasTimeProperty", name |-> name,
                      outcome |-> "threw", value |-> FALSE]
                ELSE [fn |-> "hasTimeProperty", name |-> name,
                      outcome |-> "returned",
                      value |-> hasTimeProperty(doc, name)]
    /\ UNCHANGED <<doc, prev, data, ext, pluginVars>>

\* doc = insertFrontMatter(doc, m)
CallInsertFrontMatter(m) ==
    /\ calls < MaxCalls
    /\ calls' = calls + 1
    /\ IF \E i \in DOMAIN m : regExpSyntaxError(m[i].key)
         THEN /\ res' = [fn |-> "insertFrontMatter", name |-> "",
                         outcome |-> "threw", value |-> FALSE]
              /\ UNCHANGED <<doc, prev, data, ext>>
         ELSE /\ res' = [fn |-> "insertFrontMatter", name |-> "",
                         outcome |-> "returned", value |-> FALSE]
              /\ doc' = insertFrontMatter(doc, m)
              /\ prev' = doc
              /\ data' = m
              /\ ext' = [found |-> frontMatterMatch(doc).found,
                         inner |-> frontMatterOf(doc)]
    /\ UNCHANGED pluginVars

NextCalls ==
    \/ \E name \in OpaqueNames : CallHasTimeProperty(name)
    \/ \E m \in OpaqueMappings : CallInsertFrontMatter(m)

SpecCalls == InitCalls /\ [][NextCalls]_vars

\* C12: hasTimeProperty(content, name) is true iff content has a header
\* block and some line of the block starts with "name:"; a name that occurs
\* mid-line, inside another field name, in another letter case or only
\* outside the block does not count.
C12_PresenceLineAnchored ==
    (res.fn = "hasTimeProperty" /\ res.outcome = "returned") =>
        (res.value <=>
            /\ HasBlock(doc)
            /\ \E l \in Range(BlockLines(doc)) :
                   StartsWithAt(l, res.name \o ":", 1))

\* C13: insertFrontMatter and hasTimeProperty return a result and never
\* raise, whatever the document and whatever strings the names are.
C13_NeverRaises ==
    res.outcome # "threw"

(***************************************************************************)
(* The plugin in its host.  The host keeps the vault (each file's text and *)
(* stat), knows which file is open in the editor, and calls the three      *)
(* registered handlers when a file is opened, created or modified.  A      *)
(* handler runs up to its first await inside the step of the event that    *)
(* called it; it is then suspended at "read" (await vault.read), at        *)
(* "write" (vault.modify called, the file not yet written) and at "wrote"  *)
(* (the file written, the code after the await not yet run).  vault.modify *)
(* raises the vault's modify event when it writes the file, so the step    *)
(* that writes also runs handleFileModify up to its first await.           *)
(* Time is counted in seconds; Date.now() is (Epoch + clock) * 1000, with  *)
(* Epoch a stand-in for the seconds since 1970 that keeps Date.now() far   *)
(* above every interval, as it is on a real clock.                         *)
(***************************************************************************)
Epoch == 100

InitDelay == 2

Files == {"a.md", "b.md", "c.txt"}

ModifyIntervals == {0, 2}

\* what loadData() gives: nothing saved yet, or the settings saved before
SavedData ==
    {<<>>} \cup [enableCreatedTime : BOOLEAN, enableModifiedTime : BOOLEAN,
                 modifyInterval : ModifyIntervals]

\* loadSettings: Object.assign({}, DEFAULT_SETTINGS, await this.loadData())
loadSettings(saved) ==
    [k \in DOMAIN DEFAULT_SETTINGS |->
        IF k \in DOMAIN saved THEN saved[k] ELSE DEFAULT_SETTINGS[k]]

\* the texts typed into the interval field of the settings tab
IntervalTexts == {"0", " +2s", "0x2", "x"}

HexDigits == "0123456789abcdef"

HexDigitsUpper == "0123456789ABCDEF"

\* the character of s at i, empty beyond the ends of s
charAt(s, i) == IF i \in 1..Len(s) THEN Ch(s, i) ELSE ""

\* the value of character c as a digit of the radix, -1 if it is none
digitOf(c, radix) ==
    LET hits == {v \in 0..(radix - 1) :
                    Ch(HexDigits, v + 1) = c \/ Ch(HexDigitsUpper, v + 1) = c}
    IN  IF hits = {} THEN -1 ELSE Min(hits)

\* the number read from the digits of s starting at i, having read acc
RECURSIVE readDigits(_, _, _, _)
readDigits(s, i, radix, acc) ==
    IF digitOf(charAt(s, i), radix) = -1 THEN acc
    ELSE readDigits(s, i + 1, radix, acc * radix + digitOf(charAt(s, i), radix))

\* parseInt(value) || 0: leading white space is skipped, then an optional
\* sign, an optional 0x or 0X (radix 16), and the digits up to the first
\* character that is none; NaN (no digit) and 0 both give 0.
parseIntOrZero(value) ==
    LET lead    == {i \in 1..Len(value) : Ch(value, i) \notin WhiteSpace}
        start   == IF lead = {} THEN Len(value) + 1 ELSE Min(lead)
        signed  == charAt(value, start) \in {"+", "-"}
        first   == IF signed THEN start + 1 ELSE start
        hex     == StartsWithAt(value, "0x", first)
                       \/ StartsWithAt(value, "0X", first)
        from    == IF hex THEN first + 2 ELSE first
        radix   == IF hex THEN 16 ELSE 10
        n       == readDigits(value, from, radix, 0)
    IN  IF charAt(value, start) = "-" THEN 0 - n ELSE n

InitialContents ==
    {"", "---\ncreated: $$\n---", "---\ncreated: 1\nmodified: 2\n---"}

extension(f) == IF IsSuffix(".md", f) THEN "md" ELSE "txt"

now == (Epoch + clock) * 1000

Suspended == {i \in 1..MaxHandlers : handlers[i] # Idle}

HasFree == \E i \in 1..MaxHandlers : handlers[i] = Idle

FreeSlot == Min({i \in 1..MaxHandlers : handlers[i] = Idle})

Call(kind, f, origin, currentTime, stamp) ==
    [kind |-> kind, file |-> f, pc |-> "read", origin |-> origin,
     currentTime |-> currentTime,
     interval |-> IF kind = "modify"
                    THEN settings.modifyInterval * 1000 ELSE 0,
     stamp |-> stamp, content |-> "", newContent |-> ""]

Step(op, kind, f, origin) ==
    [NoStep EXCEPT !.op = op, !.kind = kind, !.file = f, !.origin = origin]

InitPluginWith(contents) ==
    /\ doc = ""
    /\ prev = ""
    /\ data = <<>>
    /\ ext = NoExt
    /\ calls = 0
    /\ res = NoRes
    /\ clock = 0
    /\ isInitializing = TRUE
    /\ processingFile = FALSE
    /\ activeFile = NoFile
    /\ lastModifiedTime = 0
    /\ \E saved \in SavedData : settings = loadSettings(saved)
    /\ \E c \in contents :
           vault = [f \in {"a.md"} |-> [data |-> c, ctime |-> 0, mtime |-> 0]]
    /\ openFile \in {NoFile, "a.md"}
    /\ handlers = [i \in 1..MaxHandlers |-> Idle]
    /\ events = 0
    /\ last = NoStep
    /\ hist = NoHist

InitPlugin == InitPluginWith(InitialContents)

\* time passes
Tick ==
    /\ clock < MaxClock
    /\ clock' = clock + 1
    /\ last' = Step("tick", "none", NoFile, "none")
    /\ UNCHANGED <<engineVars, isInitializing, processingFile, activeFile,
                   lastModifiedTime, settings, vault, openFile, handlers,
                   events, hist>>

\* onload's timer: setTimeout(() => { this.isInitializing = false; }, 2000)
TimerFires ==
    /\ isInitializing
    /\ clock >= InitDelay
    /\ isInitializing' = FALSE
    /\ last' = Step("timer", "none", NoFile, "none")
    /\ UNCHANGED <<engineVars, clock, processingFile, activeFile,
                   lastModifiedTime, settings, vault, openFile, handlers,
                   events, hist>>

\* handleFileModify's guard: the event is not ignored
modifyGuard(f) ==
    ~(isInitializing \/ processingFile \/ extension(f) # "md" \/ f # activeFile)

\* handleFileModify goes on to update the modified time
modifyStarts(f) ==
    /\ modifyGuard(f)
    /\ settings.enableModifiedTime
    /\ now - lastModifiedTime > settings.modifyInterval * 1000

\* The user opens f in the editor, or closes the last file (f = NoFile):
\* the workspace's file-open event calls handleFileOpen(f).
OpenFile(f) ==
    /\ HasFree
    /\ f \in DOMAIN vault \cup {NoFile}
    /\ f # openFile
    /\ events' = events + 1
    /\ openFile' = f
    /\ IF isInitializing \/ f = NoFile \/ extension(f) # "md"
         THEN /\ last' = [Step("open", "open", f, "user") EXCEPT
                              !.quiet = (Suspended = {})]
              /\ UNCHANGED <<activeFile, processingFile, handlers, hist>>
         ELSE /\ activeFile' = f
              /\ processingFile' = TRUE
              /\ handlers' = [handlers EXCEPT
                                 ![FreeSlot] = Call("open", f, "user", 0, "")]
              /\ hist' = [hist EXCEPT
                             !.opened = IF f \in hist.created
                                          THEN @ \cup {f} ELSE @]
              /\ last' = [Step("open", "open", f, "user") EXCEPT
                              !.accepted = TRUE, !.quiet = (Suspended = {})]
    /\ UNCHANGED <<engineVars, clock, isInitializing, lastModifiedTime,
                   settings, vault>>

\* CreateFile for a handleFileCreate whose guard does not test isInitializing
CreateFileUnguarded(f) ==
    /\ HasFree
    /\ f \in Files \ DOMAIN vault
    /\ events' = events + 1
    /\ vault' = [g \in DOMAIN vault \cup {f} |->
                    IF g = f THEN [data |-> "", ctime |-> clock, mtime |-> clock]
                    ELSE vault[g]]
    /\ IF extension(f) # "md"
         THEN /\ last' = [Step("create", "create", f, "user") EXCEPT
                              !.quiet = (Suspended = {})]
              /\ UNCHANGED <<processingFile, handlers>>
         ELSE /\ processingFile' = TRUE
              /\ handlers' = [handlers EXCEPT
                                 ![FreeSlot] =
                                     Call("create", f, "user", 0, format(clock))]
              /\ last' = [Step("create", "create", f, "user") EXCEPT
                              !.accepted = TRUE, !.quiet = (Suspended = {})]
    /\ UNCHANGED <<engineVars, clock, isInitializing, activeFile,
                   lastModifiedTime, settings, openFile, hist>>

\* A new, empty file f appears in the vault: the vault's create event calls
\* handleFileCreate(f).
CreateFile(f) ==
    /\ HasFree
    /\ f \in Files \ DOMAIN vault
    /\ events' = events + 1
    /\ vault' = [g \in DOMAIN vault \cup {f} |->
                    IF g = f THEN [data |-> "", ctime |-> clock, mtime |-> clock]
                    ELSE vault[g]]
    /\ IF isInitializing \/ extension(f) # "md"
         THEN /\ last' = [Step("create", "create", f, "user") EXCEPT
                              !.quiet = (Suspended = {})]
              /\ UNCHANGED <<processingFile, handlers>>
         ELSE /\ processingFile' = TRUE
              /\ handlers' = [handlers EXCEPT
                                 ![FreeSlot] =
                                     Call("create", f, "user", 0, format(clock))]
              /\ last' = [Step("create", "create", f, "user") EXCEPT
                              !.accepted = TRUE, !.quiet = (Suspended = {})]
    /\ UNCHANGED <<engineVars, clock, isInitializing, activeFile,
                   lastModifiedTime, settings, openFile, hist>>

\* File f is saved with the same text, by the user from the editor when f is
\* the open file and by something outside the editor otherwise: the vault's
\* modify event calls handleFileModify(f).
UserModify(f) ==
    /\ HasFree
    /\ f \in DOMAIN vault
    /\ events' = events + 1
    /\ vault' = [vault EXCEPT ![f].mtime = clock]
    /\ LET origin == IF f = openFile THEN "user" ELSE "external"
           firstEdit == origin = "user" /\ f \in hist.opened \ hist.edited
       IN  /\ last' = [Step("modify", "modify", f, origin) EXCEPT
                           !.accepted = modifyStarts(f),
                           !.quiet = (Suspended = {}),
                           !.qualifies =
                               /\ ~isInitializing
                               /\ settings.enableModifiedTime
                               /\ origin = "user"
                               /\ extension(f) = "md"
                               /\ now - lastModifiedTime
                                      > settings.modifyInterval * 1000,
                           !.firstEdit = firstEdit]
           /\ hist' = [hist EXCEPT
                          !.edited = IF firstEdit THEN @ \cup {f} ELSE @]
           /\ IF modifyStarts(f)
                THEN /\ processingFile' = TRUE
                     /\ handlers' = [handlers EXCEPT
                                        ![FreeSlot] =
                                            Call("modify", f, origin, now, "")]
                ELSE UNCHANGED <<processingFile, handlers>>
    /\ UNCHANGED <<engineVars, clock, isInitializing, activeFile,
                   lastModifiedTime, settings, openFile>>

\* the suspended calls once call i is over (the later ones move up)
Finished(i) ==
    [j \in 1..MaxHandlers |->
        IF j < i THEN handlers[j]
        ELSE IF j < MaxHandlers THEN handlers[j + 1]
        ELSE Idle]

\* The settings tab: the user flips the toggle of the created time.  The
\* callback assigns the setting (and saves the settings).
SetEnableCreatedTime(value) ==
    /\ value # settings.enableCreatedTime
    /\ events' = events + 1
    /\ settings' = [settings EXCEPT !.enableCreatedTime = value]
    /\ last' = Step("setting", "none", NoFile, "user")
    /\ UNCHANGED <<engineVars, clock, isInitializing, processingFile,
                   activeFile, lastModifiedTime, vault, openFile, handlers,
                   hist>>

\* The settings tab: the user flips the toggle of the modified time.
SetEnableModifiedTime(value) ==
    /\ value # settings.enableModifiedTime
    /\ events' = events + 1
    /\ settings' = [settings EXCEPT !.enableModifiedTime = value]
    /\ last' = Step("setting", "none", NoFile, "user")
    /\ UNCHANGED <<engineVars, clock, isInitializing, processingFile,
                   activeFile, lastModifiedTime, vault, openFile, handlers,
                   hist>>

\* The settings tab: the user types text into the interval field:
\* modifyInterval = parseInt(value) || 0.
SetModifyInterval(text) ==
    /\ events' = events + 1
    /\ settings' = [settings EXCEPT !.modifyInterval = parseIntOrZero(text)]
    /\ last' = Step("setting", "none", NoFile, "user")
    /\ UNCHANGED <<engineVars, clock, isInitializing, processingFile,
                   activeFile, lastModifiedTime, vault, openFile, handlers,
                   hist>>

\* the finally block of each handler: this.processingFile = false, and the
\* call is over
finally(i) ==
    /\ processingFile' = FALSE
    /\ handlers' = Finished(i)

\* handleFileOpen's dataToAdd: the enabled fields hasTimeProperty misses,
\* valued from the file's stat
openData(content, stat) ==
    (IF settings.enableCreatedTime /\ ~hasTimeProperty(content, "created")
       THEN <<Entry("created", format(stat.ctime))>> ELSE <<>>)
    \o
    (IF settings.enableModifiedTime /\ ~hasTimeProperty(content, "modified")
       THEN <<Entry("modified", format(stat.mtime))>> ELSE <<>>)

\* handleFileCreate's data: the enabled fields, valued with the time of the
\* create event
createData(stamp) ==
    (IF settings.enableCreatedTime
       THEN <<Entry("created", stamp)>> ELSE <<>>)
    \o
    (IF settings.enableModifiedTime
       THEN <<Entry("modified", stamp)>> ELSE <<>>)

\* what the handler call h passes to insertFrontMatter once it has read content
dataOf(h, content) ==
    IF h.kind = "open" THEN openData(content, vault[h.file])
    ELSE IF h.kind = "create" THEN createData(h.stamp)
    ELSE <<Entry("modified", format(clock))>>

\* await vault.read(file) resolves: the handler computes its data and either
\* calls vault.modify with the new text or has nothing to write and ends.
ReadDone(i) ==
    /\ handlers[i].pc = "read"
    /\ LET h == handlers[i]
           content == vault[h.file].data
           entries == dataOf(h, content)
       IN  /\ last' = Step("read", h.kind, h.file, h.origin)
           /\ IF entries # <<>>
                THEN /\ handlers' =
                            [handlers EXCEPT
                                ![i].pc = "write",
                                ![i].content = content,
                                ![i].newContent =
                                    insertFrontMatter(content, entries)]
                     /\ UNCHANGED processingFile
                ELSE finally(i)
    /\ UNCHANGED <<engineVars, clock, isInitializing, activeFile,
                   lastModifiedTime, settings, vault, openFile, events, hist>>

\* await vault.read(file) rejects: catch logs the error, finally runs
ReadFail(i) ==
    /\ handlers[i].pc = "read"
    /\ last' = Step("readFail", handlers[i].kind, handlers[i].file,
                    handlers[i].origin)
    /\ finally(i)
    /\ UNCHANGED <<engineVars, clock, isInitializing, activeFile,
                   lastModifiedTime, settings, vault, openFile, events, hist>>

\* vault.modify(file, newContent) writes the file and raises the vault's
\* modify event, which calls handleFileModify(file) up to its first await.
DoWrite(i) ==
    /\ handlers[i].pc = "write"
    /\ LET h == handlers[i]
           own == modifyStarts(h.file)
       IN  /\ own => \E j \in 1..MaxHandlers : handlers[j] = Idle
           /\ vault' = [vault EXCEPT ![h.file].data = h.newContent,
                                     ![h.file].mtime = clock]
           /\ handlers' =
                  IF own
                    THEN [handlers EXCEPT
                             ![i].pc = "wrote",
                             ![FreeSlot] = Call("modify", h.file, "own", now, "")]
                    ELSE [handlers EXCEPT ![i].pc = "wrote"]
           /\ processingFile' = (processingFile \/ own)
           /\ last' = [Step("write", h.kind, h.file, h.origin) EXCEPT
                           !.accepted = own,
                           !.before = h.content,
                           !.after = h.newContent,
                           !.at = IF h.kind = "modify" THEN h.currentTime ELSE -1,
                           !.prevAt = IF h.kind = "modify"
                                        THEN hist.prevModifyWrite ELSE -1,
                           !.interval = h.interval,
                           !.reset = h.kind = "modify" /\ hist.resetSince]
           /\ hist' = IF h.kind = "modify"
                        THEN [hist EXCEPT !.prevModifyWrite = h.currentTime,
                                          !.resetSince = FALSE]
                        ELSE hist
    /\ UNCHANGED <<engineVars, clock, isInitializing, activeFile,
                   lastModifiedTime, settings, openFile, events>>

\* WriteFail for a handleFileModify that stored lastModifiedTime before
\* awaiting vault.modify instead of after it
WriteFailTimeStored(i) ==
    /\ handlers[i].pc = "write"
    /\ last' = Step("writeFail", handlers[i].kind, handlers[i].file,
                    handlers[i].origin)
    /\ finally(i)
    /\ lastModifiedTime' = IF handlers[i].kind = "modify"
                             THEN handlers[i].currentTime
                             ELSE lastModifiedTime
    /\ UNCHANGED <<engineVars, clock, isInitializing, activeFile,
                   settings, vault, openFile, events, hist>>

\* vault.modify(file, newContent) rejects without writing: catch logs the
\* error, finally runs
WriteFail(i) ==
    /\ handlers[i].pc = "write"
    /\ last' = Step("writeFail", handlers[i].kind, handlers[i].file,
                    handlers[i].origin)
    /\ finally(i)
    /\ UNCHANGED <<engineVars, clock, isInitializing, activeFile,
                   lastModifiedTime, settings, vault, openFile, events, hist>>

\* await vault.modify(...) resolves: the code after it runs, then finally.
\* handleFileCreate resets lastModifiedTime when the file is the active one;
\* handleFileModify stores the Date.now it took at the start.
Continue(i) ==
    /\ handlers[i].pc = "wrote"
    /\ LET h == handlers[i]
           resets == /\ h.kind = "create"
                     /\ h.file = activeFile
                     /\ settings.enableModifiedTime
       IN  /\ lastModifiedTime' =
                  IF resets THEN 0
                  ELSE IF h.kind = "modify" THEN h.currentTime
                  ELSE lastModifiedTime
           /\ hist' = [hist EXCEPT
                          !.resetSince = @ \/ resets,
                          !.created =
                              IF h.kind = "create" /\ settings.enableModifiedTime
                                THEN @ \cup {h.file} ELSE @]
           /\ last' = Step("continue", h.kind, h.file, h.origin)
    /\ finally(i)
    /\ UNCHANGED <<engineVars, clock, isInitializing, activeFile, settings,
                   vault, openFile, events>>

\* an event of the host, which delivers at most bound events in a run
HostEvent(bound) ==
    /\ events < bound
    /\ \/ \E f \in Files \cup {NoFile} : OpenFile(f)
       \/ \E f \in Files : CreateFile(f)
       \/ \E f \in Files : UserModify(f)
       \/ \E value \in BOOLEAN : SetEnableCreatedTime(value)
       \/ \E value \in BOOLEAN : SetEnableModifiedTime(value)
       \/ \E text \in IntervalTexts : SetModifyInterval(text)

NextPlugin ==
    \/ Tick
    \/ TimerFires
    \/ HostEvent(MaxEvents)
    \/ \E i \in 1..MaxHandlers : ReadDone(i)
    \/ \E i \in 1..MaxHandlers : ReadFail(i)
    \/ \E i \in 1..MaxHandlers : DoWrite(i)
    \/ \E i \in 1..MaxHandlers : WriteFail(i)
    \/ \E i \in 1..MaxHandlers : Continue(i)

SpecPlugin == InitPlugin /\ [][NextPlugin]_vars

\* The runs in which the host delivers an event only when every handler
\* call before it has finished, so that no two calls overlap, from a vault
\* whose one file is empty.
InitPluginSeq == InitPluginWith({""})

NextPluginSeq ==
    \/ Tick
    \/ TimerFires
    \/ Suspended = {} /\ HostEvent(MaxSeqEvents)
    \/ \E i \in 1..MaxHandlers : ReadDone(i)
    \/ \E i \in 1..MaxHandlers : ReadFail(i)
    \/ \E i \in 1..MaxHandlers : DoWrite(i)
    \/ \E i \in 1..MaxHandlers : WriteFail(i)
    \/ \E i \in 1..MaxHandlers : Continue(i)

SpecPluginSeq == InitPluginSeq /\ [][NextPluginSeq]_vars

\* C14: under every interleaving of the handlers, processingFile is true
\* whenever some handler call is between its read and the completion of its
\* write, and the modify event raised by a write of the plugin never passes
\* handleFileModify's guard to start a further write.
C14_AntiLoopGuard ==
    /\ \A i \in 1..MaxHandlers :
           handlers[i].pc \in {"read", "write"} => processingFile
    /\ last.op = "write" => ~last.accepted

\* C15: two successive writes of the modified field by handleFileModify are
\* started more than modifyInterval seconds apart on Date.now, unless
\* handleFileCreate reset lastModifiedTime to 0 between them; modifyInterval
\* is the one the later write's handler read.  Stated for a
\* positive modifyInterval, where the clock's one-second grain cannot hide
\* the gap.
C15_Throttled ==
    (last.op = "write" /\ last.kind = "modify" /\ last.prevAt # -1
         /\ ~last.reset /\ last.interval > 0) =>
        last.at - last.prevAt > last.interval

\* The runs with at most MaxShortEvents events of the host, from a vault
\* whose one file is empty.
InitPluginShort == InitPluginWith({""})

NextPluginShort ==
    \/ Tick
    \/ TimerFires
    \/ HostEvent(MaxShortEvents)
    \/ \E i \in 1..MaxHandlers : ReadDone(i)
    \/ \E i \in 1..MaxHandlers : ReadFail(i)
    \/ \E i \in 1..MaxHandlers : DoWrite(i)
    \/ \E i \in 1..MaxHandlers : WriteFail(i)
    \/ \E i \in 1..MaxHandlers : Continue(i)

SpecPluginShort == InitPluginShort /\ [][NextPluginShort]_vars

\* C16: a markdown file is created (its create event handled to the end,
\* enableModifiedTime on) and then opened; the first modify event of the
\* user on it, arriving when no handler call is suspended, passes the
\* interval test and starts the update of the modified field.  Stated for
\* enableModifiedTime still on at the edit and a positive modifyInterval.
C16_FirstEditImmediate ==
    (last.op = "modify" /\ last.firstEdit /\ last.quiet
         /\ settings.enableModifiedTime
         /\ settings.modifyInterval > 0) => last.accepted

\* C17 (the safety it rests on): after initialization, with enableModifiedTime
\* on, a modify event of the user on the markdown file open in the editor
\* that arrives more than modifyInterval after the last update, when no
\* handler call is suspended, is not discarded: it starts the write of the
\* modified field.  A discarded event starts nothing, so no write follows it.
C17_EditNotDiscarded ==
    ~(last.op = "modify" /\ last.qualifies /\ last.quiet /\ ~last.accepted)

TimeLines(d) ==
    {l \in Range(BlockLines(d)) :
        \E name \in Keys : StartsWithAt(l, name \o ":", 1)}

\* C18: a write by handleFileOpen keeps every created and modified line of
\* the header it read, adds a field only if it was absent, and happens only
\* when some field was absent.  (Which fields are enabled is left out: the
\* settings may change between the handler's test and its write.)
C18_OpenOnlyFillsMissing ==
    (last.op = "write" /\ last.kind = "open") =>
        /\ TimeLines(last.before) \subseteq TimeLines(last.after)
        /\ \E k \in Keys : CountLines(BlockLines(last.before), k) = 0
        /\ \A k \in Keys :
               CountLines(BlockLines(last.after), k)
                   > CountLines(BlockLines(last.before), k)
               => CountLines(BlockLines(last.before), k) = 0

\* C19: every write of a handler goes to the markdown file that is open in
\* the editor and is the plugin's active file.
C19_OnlyActiveDocument ==
    last.op = "write" =>
        /\ last.file = openFile
        /\ last.file = activeFile
        /\ extension(last.file) = "md"

\* C20: a step in which vault.read or vault.modify fails inside a handler
\* leaves every file as it was, ends that handler call (its error caught),
\* leaves processingFile false and lastModifiedTime unchanged.
C20_FailureHandling ==
    [][last'.op \in {"readFail", "writeFail"} =>
           /\ vault' = vault
           /\ \E i \in Suspended : handlers' = Finished(i)
           /\ processingFile' = FALSE
           /\ lastModifiedTime' = lastModifiedTime]_vars

\* vault.modify has failed inside a handleFileModify that passed the
\* interval test
C20_Witness ==
    /\ last.op = "writeFail"
    /\ last.kind = "modify"
    /\ processingFile = FALSE

\* C21: a step taken while isInitializing is true (from load until the
\* timer fires) is no read and no write of a handler: a file-open, create or
\* modify event in that time passes no guard, no handler call is suspended
\* after it, and the text of every file of the vault stays as it was.
C21_QuietDuringInit ==
    [][isInitializing =>
           /\ ~last'.accepted
           /\ last'.op \in {"tick", "timer", "setting",
                           "open", "create", "modify"}
           /\ \A i \in 1..MaxHandlers : handlers'[i] = Idle
           /\ processingFile' = FALSE
           /\ \A f \in DOMAIN vault : vault'[f].data = vault[f].data]_vars

\* a markdown file has been created in the vault during initialization
C21_Witness ==
    /\ isInitializing
    /\ last.op = "create"
    /\ extension(last.file) = "md"
    /\ last.file \in DOMAIN vault

====
